---- MODULE Spec2Model ----
(***************************************************************************)
(* Key derivation and key lifecycle of the protected file system           *)
(* (sgx_protected_fs/tfs/src/sys/keys.rs): the KDF engine KdfInput, the    *)
(* rotating MasterKey, the MetadataKey provider and the FsKeyGen facade.   *)
(*                                                                         *)
(* Values.  A Key128bit is a natural number below MacModulus, 0 being the  *)
(* all-zero key.  A KeyId (the tag) is a natural number in 0..MaxTag,      *)
(* 0 being KeyId::default().  An Option<T> is a set with at most one       *)
(* element.  An FsResult is a record [ok, key, key_id, err].               *)
(*                                                                         *)
(* The random source, the MAC primitive and the hardware key request are   *)
(* external; each call below takes their outcomes as an argument `env`,    *)
(* which the actions choose nondeterministically:                          *)
(*   env.rng[i]  Option<KeyId>: {} when RdRand::new() fails, {t} when the  *)
(*               i-th random draw of the call fills the tag with t;        *)
(*   env.mac[i]  TRUE when the i-th AesCMac::cmac of the call succeeds;    *)
(*   env.hw      TRUE when KeyRequest::get_key succeeds.                   *)
(* Draw 1 belongs to MasterKey::new (or to the metadata provider), draw 2  *)
(* to the sub-key derivation of a Random request.                          *)
(***************************************************************************)
EXTENDS Integers, Sequences, FiniteSets, Bags, TLC

\* ------------------------------------------------------------------ bounds
MaxTag == 1
MaxNode == 1
MaxUserKey == 1
MaxSvn == 0
MaxCount == 1
StartLead == 2

\* ------------------------------------------------------- program constants
MAX_USAGES == 65536

KeyTypes == {"Metadata", "Master", "Random"}

ENOTSUP == "ENOTSUP"
EINVAL == "EINVAL"
\* the error AesCMac::cmac reports; the error KeyRequest::get_key reports
EMAC == "SGX_ERROR_CMAC"
EGETKEY == "SGX_ERROR_GET_KEY"

Tags == 0..MaxTag
Nodes == 0..MaxNode
Svns == 0..MaxSvn
ZeroKey == 0
UserKeys == 0..MaxUserKey

None == {}
Some(v) == {v}
Unwrap(o) == CHOOSE v \in o : TRUE

Ok(k, t) == [ok |-> TRUE, key |-> k, key_id |-> t, err |-> "none"]
Err(e) == [ok |-> FALSE, key |-> 0, key_id |-> 0, err |-> e]

\* ---------------------------------------------------------------- KdfInput
MASTER_KEY_NAME ==
    <<83, 71, 88, 45, 80, 82, 79, 84, 69, 67, 84, 69, 68, 45, 70, 83, 45,
      77, 65, 83, 84, 69, 82, 45, 75, 69, 89>>
RANDOM_KEY_NAME ==
    <<83, 71, 88, 45, 80, 82, 79, 84, 69, 67, 84, 69, 68, 45, 70, 83, 45,
      82, 65, 78, 68, 79, 77, 45, 75, 69, 89>>
METADATA_KEY_NAME ==
    <<83, 71, 88, 45, 80, 82, 79, 84, 69, 67, 84, 69, 68, 45, 70, 83, 45,
      77, 69, 84, 65, 68, 65, 84, 65, 45, 75, 69, 89>>

LabelSize == 64
KeyIdSize == 16

Zeros(n) == [i \in 1..n |-> 0]

\* little-endian bytes of an unsigned integer of `width` bytes; the values of
\* the model are below 2^31, so the bytes past the fourth are zero
LeBytes(v, width) ==
    [i \in 1..width |-> IF i > 4 THEN 0 ELSE (v \div (256 ^ (i - 1))) % 256]

\* KdfInput { ..Default::default() }: every field zero
KdfInputDefault ==
    [index |-> 0, label |-> Zeros(LabelSize), pad1 |-> 0, node_number |-> 0,
     nonce |-> 0, output_len |-> 0, pad2 |-> 0]

\* kdf.label[0..label.len()].copy_from_slice(label.as_bytes())
CopyLabel(label, name) ==
    [i \in 1..Len(label) |-> IF i <= Len(name) THEN name[i] ELSE label[i]]

\* faulty variant: the Random purpose is given the master label
LabelOf_shared(key_type) ==
    CASE key_type = "Metadata" -> METADATA_KEY_NAME
      [] key_type = "Master" -> MASTER_KEY_NAME
      [] key_type = "Random" -> MASTER_KEY_NAME

LabelOf(key_type) ==
    CASE key_type = "Metadata" -> METADATA_KEY_NAME
      [] key_type = "Master" -> MASTER_KEY_NAME
      [] key_type = "Random" -> RANDOM_KEY_NAME

\* faulty variant: the two reserved words are left out
KdfBytes_nopad(kdf) ==
    LeBytes(kdf.index, 4) \o kdf.label
      \o LeBytes(kdf.node_number, 8) \o LeBytes(kdf.nonce, KeyIdSize)
      \o LeBytes(kdf.output_len, 4)

\* the bytes of the #[repr(C)] struct, in declaration order
KdfBytes(kdf) ==
    LeBytes(kdf.index, 4) \o kdf.label \o LeBytes(kdf.pad1, 4)
      \o LeBytes(kdf.node_number, 8) \o LeBytes(kdf.nonce, KeyIdSize)
      \o LeBytes(kdf.output_len, 4) \o LeBytes(kdf.pad2, 4)

\* ------------------------------------------------------------ AesCMac::cmac
\* A deterministic keyed function of the message bytes: every byte enters
\* with a weight of its position, the key with a weight of its own.
MacModulus == 1000003
MacKeyWeight == 1009
MacWeight(i) == i * i * 31 + i * 17 + 7

\* the weighted sum of the bytes (the cardinality of the bag of the terms)
MacSum(msg) ==
    BagCardinality([i \in 1..Len(msg) |-> ((msg[i] + 1) * MacWeight(i)) % MacModulus])

MacFold(seed, msg) ==
    ((seed % MacModulus) * MacKeyWeight + MacSum(msg)) % MacModulus

cmac(key, kdf) == MacFold(key, KdfBytes(kdf))

\* the KdfInput that derive_key hands to the MAC, the random source having
\* filled the nonce with `drawn`
KdfInput_derive_input(key_type, node_number, drawn) ==
    LET label == LabelOf(key_type)
        kdf0 == [KdfInputDefault EXCEPT !.index = 1, !.output_len = 128,
                                        !.node_number = node_number]
        kdf1 == [kdf0 EXCEPT !.label = CopyLabel(@, label)]
    IN  [kdf1 EXCEPT !.nonce = drawn]

\* the KdfInput that restore_key hands to the MAC
KdfInput_restore_input(key_type, node_number, key_id) ==
    LET label == LabelOf(key_type)
        kdf0 == [KdfInputDefault EXCEPT !.index = 1, !.output_len = 128,
                                        !.node_number = node_number,
                                        !.nonce = key_id]
    IN  [kdf0 EXCEPT !.label = CopyLabel(@, label)]

\* faulty variant: the node number never reaches the context
KdfInput_derive_key_nonode(key, key_type, node_number, rng, mac) ==
    IF rng = None THEN [ret |-> Err(ENOTSUP), used |-> {"rng"}]
    ELSE LET kdf0 == [KdfInputDefault EXCEPT !.index = 1, !.output_len = 128]
             kdf1 == [kdf0 EXCEPT !.label = CopyLabel(@, LabelOf(key_type))]
             kdf == [kdf1 EXCEPT !.nonce = Unwrap(rng)]
         IN  IF mac THEN [ret |-> Ok(cmac(key, kdf), kdf.nonce),
                          used |-> {"rng", "mac"}]
             ELSE [ret |-> Err(EMAC), used |-> {"rng", "mac"}]

\* faulty variant: the nonce is never filled from the random source
KdfInput_derive_key_zerotag(key, key_type, node_number, rng, mac) ==
    IF rng = None THEN [ret |-> Err(ENOTSUP), used |-> {"rng"}]
    ELSE LET kdf0 == [KdfInputDefault EXCEPT !.index = 1, !.output_len = 128,
                                             !.node_number = node_number]
             kdf == [kdf0 EXCEPT !.label = CopyLabel(@, LabelOf(key_type))]
         IN  IF mac THEN [ret |-> Ok(cmac(key, kdf), kdf.nonce),
                          used |-> {"rng", "mac"}]
             ELSE [ret |-> Err(EMAC), used |-> {"rng", "mac"}]

KdfInput_derive_key(key, key_type, node_number, rng, mac) ==
    IF rng = None THEN [ret |-> Err(ENOTSUP), used |-> {"rng"}]
    ELSE LET kdf == KdfInput_derive_input(key_type, node_number, Unwrap(rng))
         IN  IF mac THEN [ret |-> Ok(cmac(key, kdf), kdf.nonce),
                          used |-> {"rng", "mac"}]
             ELSE [ret |-> Err(EMAC), used |-> {"rng", "mac"}]

\* faulty variant: the caller's tag never reaches the context
KdfInput_restore_key_notag(key, key_type, node_number, key_id, mac) ==
    LET kdf0 == [KdfInputDefault EXCEPT !.index = 1, !.output_len = 128,
                                        !.node_number = node_number]
        kdf == [kdf0 EXCEPT !.label = CopyLabel(@, LabelOf(key_type))]
    IN  IF mac THEN [ret |-> Ok(cmac(key, kdf), 0), used |-> {"mac"}]
        ELSE [ret |-> Err(EMAC), used |-> {"mac"}]

KdfInput_restore_key(key, key_type, node_number, key_id, mac) ==
    LET kdf == KdfInput_restore_input(key_type, node_number, key_id)
    IN  IF mac THEN [ret |-> Ok(cmac(key, kdf), 0), used |-> {"mac"}]
        ELSE [ret |-> Err(EMAC), used |-> {"mac"}]

\* --------------------------------------------------------------- MasterKey
\* Every result of a MasterKey call is [self, ret, used, rotated, touch]: the
\* MasterKey after the call, the value returned, the externals consulted,
\* whether update() replaced the secret, and what update() returned (NoTouch
\* when the call never reached it).
NoTouch == Err("none")

\* Ok(MasterKey { key, key_id, count: 0 }) of the derived pair d, or its error
MasterKey_from(d) ==
    IF d.ret.ok
    THEN [ok |-> TRUE, used |-> d.used, err |-> "none",
          val |-> [key |-> d.ret.key, key_id |-> d.ret.key_id, count |-> 0]]
    ELSE [ok |-> FALSE, used |-> d.used, err |-> d.ret.err,
          val |-> [key |-> 0, key_id |-> 0, count |-> 0]]

MasterKey_new(env) ==
    MasterKey_from(KdfInput_derive_key(ZeroKey, "Master", 0, env.rng[1], env.mac[1]))

\* *self = Self::new()?  with n the result of Self::new(), then
\* Ok((self.key, self.key_id))
\* faulty variant: the rotating call is counted as the new secret's first use
MasterKey_replace_counted(self, n) ==
    IF n.ok
    THEN [self |-> [n.val EXCEPT !.count = 1], ret |-> Ok(n.val.key, n.val.key_id),
          used |-> n.used, rotated |-> TRUE, touch |-> Ok(n.val.key, n.val.key_id)]
    ELSE [self |-> self, ret |-> Err(n.err), used |-> n.used, rotated |-> FALSE,
          touch |-> Err(n.err)]

\* faulty variant: the counter is reset before Self::new() is known to have succeeded
MasterKey_replace_partial(self, n) ==
    IF n.ok
    THEN [self |-> n.val, ret |-> Ok(n.val.key, n.val.key_id),
          used |-> n.used, rotated |-> TRUE, touch |-> Ok(n.val.key, n.val.key_id)]
    ELSE [self |-> [self EXCEPT !.count = 0], ret |-> Err(n.err), used |-> n.used,
          rotated |-> FALSE, touch |-> Err(n.err)]

MasterKey_replace(self, n) ==
    IF n.ok
    THEN [self |-> n.val, ret |-> Ok(n.val.key, n.val.key_id),
          used |-> n.used, rotated |-> TRUE, touch |-> Ok(n.val.key, n.val.key_id)]
    ELSE [self |-> self, ret |-> Err(n.err), used |-> n.used, rotated |-> FALSE,
          touch |-> Err(n.err)]

\* self.count += 1, then Ok((self.key, self.key_id)); count is a u32 and
\* count + 1 is taken only below MAX_USAGES, so it cannot wrap
MasterKey_count(self) ==
    [self |-> [self EXCEPT !.count = @ + 1], ret |-> Ok(self.key, self.key_id),
     used |-> {}, rotated |-> FALSE, touch |-> Ok(self.key, self.key_id)]

\* faulty variant: the bound is tested with > instead of >=
MasterKey_update_late(self, env) ==
    IF self.count > MAX_USAGES
    THEN MasterKey_replace(self, MasterKey_new(env))
    ELSE MasterKey_count(self)

MasterKey_update(self, env) ==
    IF self.count >= MAX_USAGES
    THEN MasterKey_replace(self, MasterKey_new(env))
    ELSE MasterKey_count(self)

\* the result of the Random branch once update() returned u and the sub-key
\* derivation returned d
\* faulty variant: the sub-key is returned with the master tag
MasterKey_subkey_mastertag(u, d) ==
    [self |-> u.self, ret |-> [d.ret EXCEPT !.key_id = IF d.ret.ok THEN u.ret.key_id ELSE @],
     used |-> u.used \cup d.used, rotated |-> u.rotated, touch |-> u.touch]

MasterKey_subkey(u, d) ==
    [self |-> u.self, ret |-> d.ret, used |-> u.used \cup d.used,
     rotated |-> u.rotated, touch |-> u.touch]

\* let (key, _) = self.update()?; KdfInput::derive_key(&key, Random, node_number)
MasterKey_random(u, node_number, env) ==
    IF ~u.ret.ok THEN u
    ELSE MasterKey_subkey(u, KdfInput_derive_key(u.ret.key, "Random", node_number,
                                                 env.rng[2], env.mac[2]))

\* faulty variant: the Random sub-key is derived from the secret held before update()
MasterKey_random_stale(self, u, node_number, env) ==
    IF ~u.ret.ok THEN u
    ELSE MasterKey_subkey(u, KdfInput_derive_key(self.key, "Random", node_number,
                                                 env.rng[2], env.mac[2]))
MasterKey_derive_key_stale(self, key_type, node_number, env) ==
    CASE key_type = "Master" -> MasterKey_update(self, env)
      [] key_type = "Random" ->
            MasterKey_random_stale(self, MasterKey_update(self, env), node_number, env)
      [] OTHER -> [self |-> self, ret |-> Err(ENOTSUP), used |-> {},
                   rotated |-> FALSE, touch |-> NoTouch]

MasterKey_derive_key(self, key_type, node_number, env) ==
    CASE key_type = "Master" -> MasterKey_update(self, env)
      [] key_type = "Random" ->
            MasterKey_random(MasterKey_update(self, env), node_number, env)
      [] OTHER -> [self |-> self, ret |-> Err(ENOTSUP), used |-> {},
                   rotated |-> FALSE, touch |-> NoTouch]

MasterKey_restore_key(self, key_type, key_id, cpu_svn, isv_svn) ==
    [self |-> self, ret |-> Err(ENOTSUP), used |-> {}, rotated |-> FALSE,
     touch |-> NoTouch]

\* faulty variant: only the counter is reset
MasterKey_drop_keepkey(self) == [self EXCEPT !.count = 0]

\* Drop for MasterKey: the value as drop() leaves it
MasterKey_drop(self) == [self EXCEPT !.count = 0, !.key = 0]

\* ------------------------------------------------------------- MetadataKey
\* enum MetadataKey { UserKey(Key128bit), CpuKey(Box<Report>) }: the field of
\* the other variant is kept at its default.
UserKey(user_key) ==
    [variant |-> "UserKey", user_key |-> user_key,
     report |-> [cpu_svn |-> 0, isv_svn |-> 0]]
CpuKey(report) ==
    [variant |-> "CpuKey", user_key |-> 0, report |-> report]

\* KeyRequest::get_key: the sealing key is a deterministic function of the
\* whole request and of a secret only the processor holds.
HwSeed == 4242
NameCode(s) ==
    CASE s = "Seal" -> 4
      [] s = "MRSIGNER" -> 2
      [] s = "DEFAULT_MASK" -> 251
      [] s = "TSEAL_DEFAULT_MISCMASK" -> 240
      [] OTHER -> 0
get_key(req) ==
    MacFold(HwSeed,
            <<NameCode(req.key_name), NameCode(req.key_policy), req.isv_svn,
              req.cpu_svn, NameCode(req.attribute_mask.flags),
              req.attribute_mask.xfrm, req.key_id, NameCode(req.misc_mask)>>)

SealKeyRequest(isv_svn, cpu_svn, key_id) ==
    [key_name |-> "Seal", key_policy |-> "MRSIGNER", isv_svn |-> isv_svn,
     cpu_svn |-> cpu_svn,
     attribute_mask |-> [flags |-> "DEFAULT_MASK", xfrm |-> 0],
     key_id |-> key_id, misc_mask |-> "TSEAL_DEFAULT_MISCMASK"]

\* faulty variant: the hardware identity is preferred to the caller's secret
MetadataKey_new_hwfirst(user_key, tfs, report) ==
    IF tfs THEN [ok |-> TRUE, err |-> "none", val |-> CpuKey(report)]
    ELSE IF user_key # None
    THEN [ok |-> TRUE, err |-> "none", val |-> UserKey(Unwrap(user_key))]
    ELSE [ok |-> FALSE, err |-> ENOTSUP, val |-> UserKey(0)]

\* cfg(feature = "tfs") decides whether the CpuKey variant exists
MetadataKey_new(user_key, tfs, report) ==
    IF user_key # None THEN [ok |-> TRUE, err |-> "none", val |-> UserKey(Unwrap(user_key))]
    ELSE IF tfs THEN [ok |-> TRUE, err |-> "none", val |-> CpuKey(report)]
    ELSE [ok |-> FALSE, err |-> ENOTSUP, val |-> UserKey(0)]

\* a provider call never changes the provider: derive_key takes &mut self but
\* assigns nothing, restore_key takes &self
\* faulty variant: the provider keeps the key it last derived
MetadataKey_result_cached(self, d) ==
    [self |-> IF d.ret.ok THEN [self EXCEPT !.user_key = d.ret.key] ELSE self,
     ret |-> d.ret, used |-> d.used]

MetadataKey_result(self, d) == [self |-> self, ret |-> d.ret, used |-> d.used]

\* the CpuKey branch of derive_key once the random draw gave key_id
MetadataKey_seal(self, key_id, hw) ==
    IF hw
    THEN [self |-> self, used |-> {"rng", "hw"},
          ret |-> Ok(get_key(SealKeyRequest(self.report.isv_svn,
                                            self.report.cpu_svn, key_id)), key_id)]
    ELSE [self |-> self, ret |-> Err(EGETKEY), used |-> {"rng", "hw"}]

\* faulty variant: the purpose is not checked
MetadataKey_derive_key_anypurpose(self, key_type, node_number, env) ==
    IF self.variant = "UserKey"
    THEN MetadataKey_result(self, KdfInput_derive_key(self.user_key, "Metadata", 0,
                                                      env.rng[1], env.mac[1]))
    ELSE IF env.rng[1] = None
    THEN [self |-> self, ret |-> Err(ENOTSUP), used |-> {"rng"}]
    ELSE MetadataKey_seal(self, Unwrap(env.rng[1]), env.hw)

MetadataKey_derive_key(self, key_type, node_number, env) ==
    IF key_type # "Metadata"
    THEN [self |-> self, ret |-> Err(EINVAL), used |-> {}]
    ELSE IF self.variant = "UserKey"
    THEN MetadataKey_result(self, KdfInput_derive_key(self.user_key, "Metadata", 0,
                                                      env.rng[1], env.mac[1]))
    ELSE IF env.rng[1] = None
    THEN [self |-> self, ret |-> Err(ENOTSUP), used |-> {"rng"}]
    ELSE MetadataKey_seal(self, Unwrap(env.rng[1]), env.hw)

\* the CpuKey branch of restore_key once both SVNs are known to be present
\* faulty variant: the restore request names the enclave policy
MetadataKey_unseal_mrenclave(self, key_id, cpu_svn, isv_svn, hw) ==
    IF hw
    THEN [self |-> self, used |-> {"hw"},
          ret |-> Ok(get_key([SealKeyRequest(isv_svn, cpu_svn, key_id)
                                EXCEPT !.key_policy = "MRENCLAVE"]), 0)]
    ELSE [self |-> self, ret |-> Err(EGETKEY), used |-> {"hw"}]

MetadataKey_unseal(self, key_id, cpu_svn, isv_svn, hw) ==
    IF hw
    THEN [self |-> self, used |-> {"hw"},
          ret |-> Ok(get_key(SealKeyRequest(isv_svn, cpu_svn, key_id)), 0)]
    ELSE [self |-> self, ret |-> Err(EGETKEY), used |-> {"hw"}]

MetadataKey_restore_key(self, key_type, key_id, cpu_svn, isv_svn, env) ==
    IF key_type # "Metadata"
    THEN [self |-> self, ret |-> Err(EINVAL), used |-> {}]
    ELSE IF self.variant = "UserKey"
    THEN MetadataKey_result(self, KdfInput_restore_key(self.user_key, "Metadata", 0,
                                                       key_id, env.mac[1]))
    ELSE IF cpu_svn = None THEN [self |-> self, ret |-> Err(EINVAL), used |-> {}]
    ELSE IF isv_svn = None THEN [self |-> self, ret |-> Err(EINVAL), used |-> {}]
    ELSE MetadataKey_unseal(self, key_id, Unwrap(cpu_svn), Unwrap(isv_svn), env.hw)

\* Drop for MetadataKey: the value as drop() leaves it
MetadataKey_drop(self) ==
    IF self.variant = "UserKey" THEN [self EXCEPT !.user_key = 0] ELSE self

\* the values destroyed during a call, each as its drop() left it
NoDrops == [master |-> {}, metadata |-> {}]

\* ---------------------------------------------------------------- FsKeyGen
\* self is [master_key, metadata_key]; r is the result of the component the
\* call was routed to
FsKeyGen_master(self, r) ==
    [self |-> [self EXCEPT !.master_key = r.self], ret |-> r.ret,
     used |-> r.used, rotated |-> r.rotated, touch |-> r.touch]
\* faulty variant: a call served by the metadata provider is counted against
\* the master secret
FsKeyGen_metadata_counted(self, r) ==
    [self |-> [self EXCEPT !.metadata_key = r.self,
                           !.master_key.count = self.master_key.count + 1],
     ret |-> r.ret, used |-> r.used, rotated |-> FALSE, touch |-> NoTouch]

FsKeyGen_metadata(self, r) ==
    [self |-> [self EXCEPT !.metadata_key = r.self], ret |-> r.ret,
     used |-> r.used, rotated |-> FALSE, touch |-> NoTouch]

\* no FsKeyGen value: what a caller holds before FsKeyGen::new succeeds
NoFsKeyGen ==
    [master_key |-> [key |-> 0, key_id |-> 0, count |-> 0],
     metadata_key |-> [variant |-> "none", user_key |-> 0,
                       report |-> [cpu_svn |-> 0, isv_svn |-> 0]]]

\* Ok(Self { master_key: m?, metadata_key: d? }): MasterKey::new()? comes
\* first, MetadataKey::new(user_key)? second; when the second fails the master
\* key already created goes out of scope
FsKeyGen_from(m, d) ==
    IF ~m.ok THEN [ok |-> FALSE, err |-> m.err, used |-> m.used, val |-> NoFsKeyGen,
                   dropped |-> NoDrops]
    ELSE IF ~d.ok THEN [ok |-> FALSE, err |-> d.err, used |-> m.used, val |-> NoFsKeyGen,
                        dropped |-> [NoDrops EXCEPT !.master = {MasterKey_drop(m.val)}]]
    ELSE [ok |-> TRUE, err |-> "none", used |-> m.used, dropped |-> NoDrops,
          val |-> [master_key |-> m.val, metadata_key |-> d.val]]

\* tfs: the build has feature "tfs"; report: what Report::get_self() returns
FsKeyGen_new(user_key, tfs, report, env) ==
    FsKeyGen_from(MasterKey_new(env), MetadataKey_new(user_key, tfs, report))

FsKeyGen_derive_key(self, key_type, node_number, env) ==
    CASE key_type = "Metadata" ->
            FsKeyGen_metadata(self, MetadataKey_derive_key(self.metadata_key,
                                                           "Metadata", 0, env))
      [] key_type = "Master" ->
            FsKeyGen_master(self, MasterKey_derive_key(self.master_key,
                                                       "Master", 0, env))
      [] key_type = "Random" ->
            FsKeyGen_master(self, MasterKey_derive_key(self.master_key, "Random",
                                                       node_number, env))

\* faulty variant: the other purposes are handed to the master key
FsKeyGen_restore_key_tomaster(self, key_type, key_id, cpu_svn, isv_svn, env) ==
    IF key_type # "Metadata"
    THEN FsKeyGen_master(self, MasterKey_restore_key(self.master_key, key_type,
                                                     key_id, cpu_svn, isv_svn))
    ELSE FsKeyGen_metadata(self, MetadataKey_restore_key(self.metadata_key, key_type,
                                                         key_id, cpu_svn, isv_svn, env))

FsKeyGen_restore_key(self, key_type, key_id, cpu_svn, isv_svn, env) ==
    IF key_type # "Metadata"
    THEN [self |-> self, ret |-> Err(EINVAL), used |-> {}, rotated |-> FALSE,
          touch |-> NoTouch]
    ELSE FsKeyGen_metadata(self, MetadataKey_restore_key(self.metadata_key, key_type,
                                                         key_id, cpu_svn, isv_svn, env))

\* ------------------------------------------------------------------- state
VARIABLES
    fs,      \* the FsKeyGen: [master_key: MasterKey, metadata_key: MetadataKey]
    call,    \* the last call, until the caller takes its result: receiver,
             \* arguments, outcomes of the externals, result, and the FsKeyGen
             \* before the call
    uses,    \* calls served so far with the current master secret
    issued,  \* the (key, tag) pairs facade derive(Metadata) has returned
    kdf,     \* the last KdfInput::derive_key and KdfInput::restore_key calls
    seen     \* drawn: the values the random source has yielded so far;
             \* tags: the tags successful derive calls have handed out
             \* since the behaviour started

vars == <<fs, call, uses, issued, kdf, seen>>

Options(S) == {None} \cup {Some(v) : v \in S}

EnvOf(r1, m1, r2, m2, h) == [rng |-> <<r1, r2>>, mac |-> <<m1, m2>>, hw |-> h]
NoEnv == EnvOf(None, TRUE, None, TRUE, TRUE)

NoCall ==
    [comp |-> "none", op |-> "none", key_type |-> "Metadata", node_number |-> 0,
     key_id |-> 0, cpu_svn |-> None, isv_svn |-> None, env |-> NoEnv,
     ret |-> Err("none"), used |-> {}, rotated |-> FALSE, touch |-> NoTouch,
     dropped |-> NoDrops, pre |-> fs]

NoKdf == [op |-> "none", key |-> 0, key_type |-> "Metadata", node_number |-> 0,
          key_id |-> 0, rng |-> None, ret |-> Err("none"), used |-> {}]

\* no call on the KDF engine alone is on record
KdfIdle == [d |-> NoKdf, r |-> NoKdf, a |-> NoKdf]

\* MasterKey::new() with the tag its random draw produced
MasterKeyOf(key_id) == MasterKey_new(EnvOf(Some(key_id), TRUE, None, TRUE, TRUE)).val

\* The counter is followed in two windows: just after a secret was created and
\* just before the rotation bound.
StartCounts == {0, MAX_USAGES - StartLead}
InWindow == fs.master_key.count < MaxCount
              \/ fs.master_key.count >= MAX_USAGES - StartLead

MetadataKeys ==
    {UserKey(k) : k \in UserKeys}
      \cup {CpuKey([cpu_svn |-> a, isv_svn |-> b]) : a \in Svns, b \in Svns}

\* The history kept from the start of a behaviour: the random source has
\* yielded the tag key_id the master key drew at construction, and no derive
\* call has been observed yet.
SeenAt(key_id) == [drawn |-> {key_id}, tags |-> {}]

\* FsKeyGen::new(user_key) that succeeded: the master key as MasterKey::new
\* left it, the provider as MetadataKey::new left it
InitNew ==
    /\ \E t \in Tags, m \in MetadataKeys :
          /\ fs = [master_key |-> MasterKeyOf(t), metadata_key |-> m]
          /\ seen = SeenAt(t)
    /\ uses = 0
    /\ call = NoCall
    /\ issued = {}
    /\ kdf = KdfIdle

\* An FsKeyGen as FsKeyGen::new leaves it, or one whose first master secret
\* has since served MAX_USAGES - StartLead derivations.
Init ==
    /\ \E t \in Tags, c \in StartCounts, m \in MetadataKeys :
          /\ fs = [master_key |-> [MasterKeyOf(t) EXCEPT !.count = c],
                   metadata_key |-> m]
          /\ uses = c
          /\ seen = SeenAt(t)
    /\ call = NoCall
    /\ issued = {}
    /\ kdf = KdfIdle

\* The caller is between calls; otherwise `call` holds a result not yet taken.
Idle == call.op = "none"

\* The caller takes the result of the last call.
Return ==
    /\ ~Idle
    /\ call' = NoCall
    /\ UNCHANGED <<fs, uses, issued, kdf>>

Touches(key_type) == key_type \in {"Master", "Random"}

\* a call counts for the secret that served it: the new one when it rotated
UsesAfter(r) ==
    IF r.ret.ok THEN (IF r.rotated THEN 1 ELSE uses + 1)
    ELSE (IF r.rotated THEN 0 ELSE uses)

\* *self = Self::new()? destroys the value *self held: a call that rotated
\* dropped the master key it started with
Discarded(r) ==
    IF r.rotated THEN [NoDrops EXCEPT !.master = {MasterKey_drop(fs.master_key)}]
    ELSE NoDrops

\* the record of a call on `comp` that returned r
CallOf(comp, op, key_type, node_number, key_id, cpu_svn, isv_svn, env, r) ==
    [comp |-> comp, op |-> op, key_type |-> key_type, node_number |-> node_number,
     key_id |-> key_id, cpu_svn |-> cpu_svn, isv_svn |-> isv_svn, env |-> env,
     ret |-> r.ret, used |-> r.used, rotated |-> r.rotated, touch |-> r.touch,
     dropped |-> Discarded(r), pre |-> fs]

\* a derive call on `comp` that returned r (r.self the FsKeyGen after it)
DoDerive(comp, key_type, node_number, env, r) ==
    /\ Idle
    /\ fs' = r.self
    /\ call' = CallOf(comp, "derive_key", key_type, node_number, 0, None, None, env, r)
    /\ uses' = IF Touches(key_type) /\ comp # "MetadataKey" THEN UsesAfter(r) ELSE uses
    /\ issued' = IF comp = "FsKeyGen" /\ key_type = "Metadata" /\ r.ret.ok
                 THEN issued \cup {[key |-> r.ret.key, key_id |-> r.ret.key_id]}
                 ELSE issued
    /\ UNCHANGED kdf

DoRestore(comp, key_type, key_id, cpu_svn, isv_svn, env, r) ==
    /\ Idle
    /\ fs' = r.self
    /\ call' = CallOf(comp, "restore_key", key_type, 0, key_id, cpu_svn, isv_svn, env, r)
    /\ UNCHANGED <<uses, issued, kdf, seen>>

FsDerive(key_type, node_number, env) ==
    DoDerive("FsKeyGen", key_type, node_number, env,
             FsKeyGen_derive_key(fs, key_type, node_number, env))

FsRestore(key_type, key_id, cpu_svn, isv_svn, env) ==
    DoRestore("FsKeyGen", key_type, key_id, cpu_svn, isv_svn, env,
              FsKeyGen_restore_key(fs, key_type, key_id, cpu_svn, isv_svn, env))

\* calls made on the two components themselves
MasterDerive(key_type, node_number, env) ==
    DoDerive("MasterKey", key_type, node_number, env,
             FsKeyGen_master(fs, MasterKey_derive_key(fs.master_key, key_type,
                                                      node_number, env)))

MasterRestore(key_type, key_id, cpu_svn, isv_svn) ==
    DoRestore("MasterKey", key_type, key_id, cpu_svn, isv_svn, NoEnv,
              FsKeyGen_master(fs, MasterKey_restore_key(fs.master_key, key_type,
                                                        key_id, cpu_svn, isv_svn)))

MetadataDerive(key_type, node_number, env) ==
    DoDerive("MetadataKey", key_type, node_number, env,
             FsKeyGen_metadata(fs, MetadataKey_derive_key(fs.metadata_key, key_type,
                                                          node_number, env)))

MetadataRestore(key_type, key_id, cpu_svn, isv_svn, env) ==
    DoRestore("MetadataKey", key_type, key_id, cpu_svn, isv_svn, env,
              FsKeyGen_metadata(fs, MetadataKey_restore_key(fs.metadata_key, key_type,
                                                            key_id, cpu_svn, isv_svn,
                                                            env)))

\* The outcomes a call can consult, the ones it cannot reach held at a default:
\* a rotation consults draw 1 and, once the draw succeeded, MAC 1; a Random
\* sub-key draw 2 and MAC 2; the metadata provider draw 1 and then MAC 1 or,
\* for a CpuKey, the key request.
Rotates == fs.master_key.count >= MAX_USAGES
Outcomes(draws, second) ==
    {<<r, m>> \in Options(draws) \X BOOLEAN : r = None => m = second}
MasterEnvs(key_type) ==
    {EnvOf(a[1], a[2], b[1], b[2], TRUE) :
        a \in IF Touches(key_type) /\ Rotates
              THEN Outcomes(Tags, TRUE) ELSE {<<None, TRUE>>},
        b \in IF key_type = "Random"
              THEN Outcomes(Tags, TRUE) ELSE {<<None, TRUE>>}}
MetadataDeriveEnvs(key_type) ==
    IF key_type # "Metadata" THEN {NoEnv}
    ELSE IF fs.metadata_key.variant = "UserKey"
    THEN {EnvOf(a[1], a[2], None, TRUE, TRUE) : a \in Outcomes(Tags, TRUE)}
    ELSE {EnvOf(a[1], TRUE, None, TRUE, a[2]) : a \in Outcomes(Tags, TRUE)}
RestoreEnvs(key_type) ==
    IF key_type # "Metadata" THEN {NoEnv}
    ELSE IF fs.metadata_key.variant = "UserKey"
    THEN {EnvOf(None, m, None, TRUE, TRUE) : m \in BOOLEAN}
    ELSE {EnvOf(None, TRUE, None, TRUE, h) : h \in BOOLEAN}
DeriveEnvs(key_type) ==
    IF key_type = "Metadata" THEN MetadataDeriveEnvs(key_type)
    ELSE MasterEnvs(key_type)

\* the calls surrounding code makes: on the facade
Next ==
    \/ \E kt \in KeyTypes, n \in Nodes :
          /\ Touches(kt) => InWindow
          /\ \E env \in DeriveEnvs(kt) : FsDerive(kt, n, env)
          /\ UNCHANGED seen
    \/ \E kt \in KeyTypes, t \in Tags, c \in Options(Svns), i \in Options(Svns) :
          \E env \in RestoreEnvs(kt) : FsRestore(kt, t, c, i, env)
    \/ Return /\ UNCHANGED seen

Spec == Init /\ [][Next]_vars

\* the calls on the two components, as the facade or a test of one makes them
NextParts ==
    \/ \E kt \in KeyTypes, n \in Nodes :
          /\ Touches(kt) => InWindow
          /\ \E env \in MasterEnvs(kt) : MasterDerive(kt, n, env)
          /\ UNCHANGED seen
    \/ \E kt \in KeyTypes, t \in Tags, c \in Options(Svns), i \in Options(Svns) :
          MasterRestore(kt, t, c, i)
    \/ \E kt \in KeyTypes, n \in Nodes :
          /\ \E env \in MetadataDeriveEnvs(kt) : MetadataDerive(kt, n, env)
          /\ UNCHANGED seen
    \/ \E kt \in KeyTypes, t \in Tags, c \in Options(Svns), i \in Options(Svns) :
          \E env \in RestoreEnvs(kt) : MetadataRestore(kt, t, c, i, env)
    \/ Return /\ UNCHANGED seen

SpecParts == Init /\ [][NextParts]_vars

\* ------------------------------------------------------- the KDF engine alone
\* KdfInput::derive_key and KdfInput::restore_key on arguments of any kind
KdfKeys == UserKeys \cup {MasterKeyOf(t).key : t \in Tags}

\* a derive_key call, then at most one restore_key call, then the caller takes
\* the results
KdfDerive(key, key_type, node_number, rng, mac) ==
    /\ kdf.d.op = "none" /\ kdf.r.op = "none"
    /\ kdf' = [kdf EXCEPT !.d =
                 [op |-> "derive_key", key |-> key, key_type |-> key_type,
                  node_number |-> node_number, key_id |-> 0, rng |-> rng,
                  ret |-> KdfInput_derive_key(key, key_type, node_number, rng, mac).ret,
                  used |-> KdfInput_derive_key(key, key_type, node_number, rng, mac).used]]
    /\ UNCHANGED <<fs, call, uses, issued, seen>>

KdfRestore(key, key_type, node_number, key_id, mac) ==
    /\ kdf.r.op = "none"
    /\ kdf' = [kdf EXCEPT !.r =
                 [op |-> "restore_key", key |-> key, key_type |-> key_type,
                  node_number |-> node_number, key_id |-> key_id, rng |-> None,
                  ret |-> KdfInput_restore_key(key, key_type, node_number, key_id, mac).ret,
                  used |-> KdfInput_restore_key(key, key_type, node_number, key_id, mac).used]]
    /\ UNCHANGED <<fs, call, uses, issued, seen>>

\* the restore_key call on record, made once more
KdfRestoreAgain(mac) ==
    /\ kdf.r.op = "restore_key" /\ kdf.a.op = "none"
    /\ kdf' = [kdf EXCEPT !.a =
                 [kdf.r EXCEPT
                    !.ret = KdfInput_restore_key(kdf.r.key, kdf.r.key_type,
                                                 kdf.r.node_number, kdf.r.key_id,
                                                 mac).ret,
                    !.used = KdfInput_restore_key(kdf.r.key, kdf.r.key_type,
                                                  kdf.r.node_number, kdf.r.key_id,
                                                  mac).used]]
    /\ UNCHANGED <<fs, call, uses, issued, seen>>

KdfReturn ==
    /\ kdf.d.op # "none" \/ kdf.r.op # "none"
    /\ kdf' = KdfIdle
    /\ UNCHANGED <<fs, call, uses, issued, seen>>

InitKdf ==
    /\ fs = [master_key |-> MasterKeyOf(0), metadata_key |-> UserKey(0)]
    /\ seen = SeenAt(0)
    /\ uses = 0
    /\ call = NoCall
    /\ issued = {}
    /\ kdf = KdfIdle

NextKdf ==
    \/ \E key \in KdfKeys, kt \in KeyTypes, n \in Nodes, a \in Outcomes(Tags, TRUE) :
          KdfDerive(key, kt, n, a[1], a[2])
    \/ \E key \in KdfKeys, kt \in KeyTypes, n \in Nodes, t \in Tags, mac \in BOOLEAN :
          KdfRestore(key, kt, n, t, mac)
    \/ \E mac \in BOOLEAN : KdfRestoreAgain(mac)
    \/ KdfReturn

SpecKdf == InitKdf /\ [][NextKdf]_vars

\* ------------------------------------------- a whole life of one master secret
\* derive(Master, 0) calls on the facade, from FsKeyGen::new on, with the
\* counter followed all the way
NextLong ==
    \/ \E env \in MasterEnvs("Master") :
          /\ env.rng[1] \in {None, Some(0)}
          /\ env.mac[1]
          /\ FsDerive("Master", 0, env)
          /\ UNCHANGED seen
    \/ Return /\ UNCHANGED seen

SpecLong == InitNew /\ [][NextLong]_vars

\* ------------------------------------------------ from construction onwards
Exists == fs.metadata_key.variant # "none"

Reports == [cpu_svn : Svns, isv_svn : Svns]

\* FsKeyGen::new(user_key) that returned r
DoNew(user_key, tfs, report, env, r) ==
    /\ Idle /\ ~Exists
    /\ fs' = r.val
    /\ call' = [user_key |-> user_key, tfs |-> tfs, report |-> report]
                 @@ [NoCall EXCEPT !.comp = "FsKeyGen", !.op = "new", !.env = env,
                                   !.ret = IF r.ok THEN Ok(0, 0) ELSE Err(r.err),
                                   !.used = r.used, !.dropped = r.dropped]
    /\ UNCHANGED <<uses, issued, kdf, seen>>

New(user_key, tfs, report, env) ==
    DoNew(user_key, tfs, report, env, FsKeyGen_new(user_key, tfs, report, env))

InitNone ==
    /\ fs = NoFsKeyGen
    /\ uses = 0
    /\ call = NoCall
    /\ issued = {}
    /\ kdf = KdfIdle
    /\ seen = [drawn |-> {}, tags |-> {}]

NextNew ==
    \/ \E user_key \in Options(UserKeys), tfs \in BOOLEAN, report \in Reports,
          a \in Outcomes(Tags, TRUE) :
          New(user_key, tfs, report, EnvOf(a[1], a[2], None, TRUE, TRUE))
    \/ \E kt \in KeyTypes, n \in Nodes :
          /\ Exists
          /\ Touches(kt) => InWindow
          /\ \E env \in DeriveEnvs(kt) : FsDerive(kt, n, env)
          /\ UNCHANGED seen
    \/ \E kt \in KeyTypes, t \in Tags, c \in Options(Svns), i \in Options(Svns) :
          /\ Exists
          /\ \E env \in RestoreEnvs(kt) : FsRestore(kt, t, c, i, env)
    \/ Return /\ UNCHANGED seen

SpecNew == InitNone /\ [][NextNew]_vars

\* ------------------------------------------------------------- destruction
\* the FsKeyGen goes out of scope: its fields are dropped, master_key first
FsKeyGen_drop ==
    /\ Idle /\ Exists
    /\ fs' = NoFsKeyGen
    /\ call' = [NoCall EXCEPT !.comp = "FsKeyGen", !.op = "drop",
                              !.dropped = [master |-> {MasterKey_drop(fs.master_key)},
                                           metadata |-> {MetadataKey_drop(fs.metadata_key)}]]
    /\ uses' = 0
    /\ issued' = {}
    /\ UNCHANGED <<kdf, seen>>

NextDrop ==
    \/ \E user_key \in Options(UserKeys), tfs \in BOOLEAN, report \in Reports,
          a \in Outcomes(Tags, TRUE) :
          New(user_key, tfs, report, EnvOf(a[1], a[2], None, TRUE, TRUE))
    \/ \E kt \in KeyTypes, n \in Nodes :
          /\ Exists
          /\ Touches(kt) => InWindow
          /\ \E env \in DeriveEnvs(kt) : FsDerive(kt, n, env)
          /\ UNCHANGED seen
    \/ FsKeyGen_drop
    \/ Return /\ UNCHANGED seen

\* a behaviour starts before construction, or with a facade as Init has it
InitLife == (InitNone \/ Init)

SpecDrop == InitLife /\ [][NextDrop]_vars

\* ------------------------------------- a random source that never repeats
\* the draws a derive call made: draw 1 whenever it was offered, draw 2 once
\* update() had succeeded in a Random request
DrawsOf(c) ==
    c.env.rng[1] \cup (IF c.key_type = "Random" /\ c.touch.ok THEN c.env.rng[2] ELSE {})

\* the source yields nothing it has yielded before
FreshDraws(env) ==
    /\ (env.rng[1] \cup env.rng[2]) \cap seen.drawn = {}
    /\ env.rng[1] = None \/ env.rng[1] # env.rng[2]

FreshDerive(key_type, node_number, env) ==
    /\ FreshDraws(env)
    /\ FsDerive(key_type, node_number, env)
    /\ seen' = [seen EXCEPT !.drawn = @ \cup DrawsOf(call')]

\* the caller takes the result and keeps the tag of a successful derive
ReturnTag ==
    /\ Return
    /\ seen' = [seen EXCEPT !.tags = IF call.op = "derive_key" /\ call.ret.ok
                                     THEN @ \cup {call.ret.key_id} ELSE @]

NextFresh ==
    \/ \E kt \in KeyTypes, n \in Nodes :
          /\ Touches(kt) => InWindow
          /\ \E env \in DeriveEnvs(kt) : FreshDerive(kt, n, env)
    \/ ReturnTag

SpecFresh == Init /\ [][NextFresh]_vars

\* =============================================================== properties
DeriveCall(comp) == call.comp = comp /\ call.op = "derive_key"
RestoreCall(comp) == call.comp = comp /\ call.op = "restore_key"
Master == fs.master_key
PreMaster == call.pre.master_key

\* C3: in every state of a master-key manager, after construction and after
\* any derive or restore call, successful or failed, usage_count <= 65536.
C3_CountBounded == Master.count <= MAX_USAGES

\* C3 witness: a derive call took the counter from 65535 to the bound itself.
C3_AtBound ==
    /\ DeriveCall("MasterKey") /\ call.ret.ok
    /\ PreMaster.count = MAX_USAGES - 1
    /\ Master.count = MAX_USAGES

\* C4: no master secret, the one created at construction or one created by a
\* rotation, serves more than 65536 derive(Master | Random) calls.
C4_ExposureBounded == uses <= MAX_USAGES

\* the secret MasterKey::new derives from the tag key_id
FreshSecret(key_id) == KdfInput_restore_key(ZeroKey, "Master", 0, key_id, TRUE).ret.key
\* the sub-key the KDF engine derives from `secret` for node n with tag key_id
SubKey(secret, n, key_id) ==
    KdfInput_restore_key(secret, "Random", n, key_id, TRUE).ret.key
\* the tag the i-th random draw of the last call produced
Drawn(i) == Unwrap(call.env.rng[i])

\* C5 as stated: with usage_count = 65535, one more derive(Random, _) gives a
\* key from a new secret: the secret differs from its value before the call
\* and the counter has been reset.
C5_RotatesAt65535 ==
    (DeriveCall("MasterKey") /\ call.key_type = "Random" /\ call.ret.ok
       /\ PreMaster.count = MAX_USAGES - 1)
    => (Master.key # PreMaster.key /\ Master.count = 0)

\* C5 amended: with usage_count = 65536, one more successful derive(Random, n)
\* replaces secret and tag by the pair MasterKey::new derives from a tag drawn
\* in this call, resets the counter to 0 and returns a sub-key of that new
\* secret; the secret differs from its old value when the drawn tag differs
\* from the old tag.
C5_RotatesAt65536 ==
    (DeriveCall("MasterKey") /\ call.key_type = "Random" /\ call.ret.ok
       /\ PreMaster.count = MAX_USAGES)
    => /\ Master = [key |-> FreshSecret(Drawn(1)), key_id |-> Drawn(1), count |-> 0]
       /\ call.ret.key = SubKey(Master.key, call.node_number, call.ret.key_id)
       /\ Master.key_id # PreMaster.key_id => Master.key # PreMaster.key

\* C5 witness: a derive(Random, _) at usage_count = 65536 left a new secret.
C5_NewSecret ==
    /\ DeriveCall("MasterKey") /\ call.key_type = "Random" /\ call.ret.ok
    /\ PreMaster.count = MAX_USAGES
    /\ Master.key # PreMaster.key
    /\ Master.count = 0

\* C6: a successful derive(Master | Random) that starts below 65536 leaves
\* secret and tag alone and adds exactly 1 to usage_count; one that starts at
\* 65536 or more replaces secret and tag by freshly derived material and ends
\* with usage_count = 0; either way touch returned the pair held afterwards.
C6_TouchRule ==
    (DeriveCall("MasterKey") /\ Touches(call.key_type) /\ call.ret.ok)
    => /\ PreMaster.count < MAX_USAGES
            => Master = [PreMaster EXCEPT !.count = PreMaster.count + 1]
       /\ PreMaster.count >= MAX_USAGES
            => Master = [key |-> FreshSecret(Drawn(1)), key_id |-> Drawn(1),
                         count |-> 0]
       /\ call.touch = Ok(Master.key, Master.key_id)

\* C6 witness: a successful derive(Master, _) rotated and was not counted.
C6_RotatingCallUncounted ==
    /\ DeriveCall("MasterKey") /\ call.key_type = "Master" /\ call.ret.ok
    /\ PreMaster.count = MAX_USAGES
    /\ Master.key_id # PreMaster.key_id
    /\ Master.count = 0

\* C7: a derive call that returns an error leaves the master-key state and
\* the metadata-key state as they were before the call.
C7_FailedDeriveChangesNothing ==
    (call.op = "derive_key" /\ ~call.ret.ok) => fs = call.pre

\* C8: the secret held always is the one derived from the tag held; a touch at
\* usage_count >= 65536 whose replacement fails keeps secret, tag and counter,
\* and one that succeeds replaces all three together.
C8_RotationAllOrNothing ==
    /\ Master.key = FreshSecret(Master.key_id)
    /\ (DeriveCall("MasterKey") /\ Touches(call.key_type)
          /\ PreMaster.count >= MAX_USAGES)
       => IF call.touch.ok
          THEN Master = [key |-> FreshSecret(Drawn(1)), key_id |-> Drawn(1),
                         count |-> 0]
          ELSE Master = PreMaster

\* C8 witness: a rotation whose MAC step failed after its tag was drawn.
C8_RotationFailed ==
    /\ DeriveCall("MasterKey") /\ Touches(call.key_type)
    /\ PreMaster.count = MAX_USAGES
    /\ call.env.rng[1] # None /\ ~call.env.mac[1]
    /\ ~call.ret.ok
    /\ Drawn(1) # PreMaster.key_id

\* C9: derive(Random, n) returns the sub-key the KDF engine computes from the
\* secret held after touch, purpose Random and node n, with the tag drawn for
\* the sub-key; derive(Master, _) returns the pair held after touch.
C9_DerivedFromHeldSecret ==
    /\ (DeriveCall("MasterKey") /\ call.key_type = "Random" /\ call.ret.ok)
       => /\ call.ret.key_id = Drawn(2)
          /\ call.ret.key = SubKey(Master.key, call.node_number, Drawn(2))
    /\ (DeriveCall("MasterKey") /\ call.key_type = "Master" /\ call.ret.ok)
       => call.ret = Ok(Master.key, Master.key_id)

\* C9 witness: a rotating derive(Random, 1) whose sub-key tag is not the
\* master tag.
C9_SubKeyOfNewSecret ==
    /\ DeriveCall("MasterKey") /\ call.key_type = "Random" /\ call.ret.ok
    /\ call.rotated /\ Master.key # PreMaster.key
    /\ call.node_number = 1
    /\ call.ret.key_id # Master.key_id

\* C10: derive(Metadata, _) and every restore on the master-key manager return
\* ENOTSUP, derive(Master | Random, _) on either metadata-key provider returns
\* EINVAL; each leaves the state alone and consults no random source, MAC or
\* key request.
C10_PurposeIsolation ==
    /\ (DeriveCall("MasterKey") /\ call.key_type = "Metadata")
       => (call.ret = Err(ENOTSUP) /\ fs = call.pre /\ call.used = {})
    /\ RestoreCall("MasterKey")
       => (call.ret = Err(ENOTSUP) /\ fs = call.pre /\ call.used = {})
    /\ (DeriveCall("MetadataKey") /\ call.key_type # "Metadata")
       => (call.ret = Err(EINVAL) /\ fs = call.pre /\ call.used = {})

\* C10 witness: derive(Random, _) was refused by a hardware-bound provider.
C10_RandomRefused ==
    /\ DeriveCall("MetadataKey") /\ call.key_type = "Random"
    /\ fs.metadata_key.variant = "CpuKey"
    /\ call.ret = Err(EINVAL)

\* C1: on a facade built with a caller-supplied secret, restore(Metadata, t,
\* cpu_svn, isv_svn) returns the key k of every pair (k, t) that an earlier
\* derive(Metadata, _) returned, whatever the SVN arguments and whatever calls
\* came between; it returns nothing else unless the MAC itself fails.
C1_RestoreReturnsDerivedKey ==
    (RestoreCall("FsKeyGen") /\ call.key_type = "Metadata"
       /\ fs.metadata_key.variant = "UserKey")
    => \A p \in issued :
          p.key_id = call.key_id
          => call.ret = IF call.env.mac[1] THEN Ok(p.key, 0) ELSE Err(EMAC)

\* C1 witness: a restore with one SVN given and one absent returned an issued
\* key after two metadata derivations and a rotation of the master key.
C1_RestoredAfterRotation ==
    /\ RestoreCall("FsKeyGen") /\ call.key_type = "Metadata" /\ call.ret.ok
    /\ fs.metadata_key.variant = "UserKey"
    /\ Cardinality(issued) = 2
    /\ [key |-> call.ret.key, key_id |-> call.key_id] \in issued
    /\ call.cpu_svn # None /\ call.isv_svn = None
    /\ Master.count = 0 /\ uses = 1

\* C2: restore_key(s, p, n, t) is the key of a derive_key(s, p, n) call whose
\* random draw was t; derive_key returns the tag it drew; restore_key consults
\* no random source, and a second restore_key call with the same arguments
\* returns the same key.
C2_RestoreMatchesDerive ==
    /\ (kdf.d.op = "derive_key" /\ kdf.r.op = "restore_key"
          /\ kdf.d.ret.ok /\ kdf.r.ret.ok
          /\ kdf.r.key = kdf.d.key /\ kdf.r.key_type = kdf.d.key_type
          /\ kdf.r.node_number = kdf.d.node_number
          /\ kdf.r.key_id = kdf.d.ret.key_id)
       => kdf.r.ret.key = kdf.d.ret.key
    /\ (kdf.d.op = "derive_key" /\ kdf.d.ret.ok)
       => (kdf.d.ret.key_id = Unwrap(kdf.d.rng) /\ "rng" \in kdf.d.used)
    /\ kdf.r.op = "restore_key" => "rng" \notin kdf.r.used
    /\ (kdf.a.op = "restore_key" /\ kdf.r.ret.ok /\ kdf.a.ret.ok)
       => (kdf.a.ret.key = kdf.r.ret.key /\ "rng" \notin kdf.a.used)

\* C2 witness: a Random key of node 1 under a master secret was restored.
C2_Restored ==
    /\ kdf.d.op = "derive_key" /\ kdf.r.op = "restore_key"
    /\ kdf.d.ret.ok /\ kdf.r.ret.ok
    /\ kdf.r.key = kdf.d.key /\ kdf.d.key \notin UserKeys
    /\ kdf.d.key_type = "Random" /\ kdf.r.key_type = "Random"
    /\ kdf.d.node_number = 1 /\ kdf.r.node_number = 1
    /\ kdf.r.key_id = kdf.d.ret.key_id /\ kdf.r.key_id # 0
    /\ kdf.r.ret.key = kdf.d.ret.key
    /\ kdf.a.op = "restore_key" /\ kdf.a.ret.ok

\* C11: restore(Master | Random, ...) on the facade returns EINVAL, reaches
\* neither component (nothing is consulted, nothing changes) and so never
\* returns a key; restore(Metadata, ...) returns what the metadata-key
\* provider returns for the same arguments.
C11_RestoreOnlyMetadata ==
    /\ (RestoreCall("FsKeyGen") /\ call.key_type # "Metadata")
       => (call.ret = Err(EINVAL) /\ call.used = {} /\ fs = call.pre)
    /\ (RestoreCall("FsKeyGen") /\ call.key_type = "Metadata")
       => call.ret = MetadataKey_restore_key(call.pre.metadata_key, "Metadata",
                                             call.key_id, call.cpu_svn,
                                             call.isv_svn, call.env).ret
    /\ (RestoreCall("FsKeyGen") /\ call.ret.ok) => call.key_type = "Metadata"

\* C11 witness: restore(Random, t, ...) with the tag the master key holds was
\* refused after the master key had served a derivation.
C11_MasterTagRefused ==
    /\ RestoreCall("FsKeyGen") /\ call.key_type = "Random"
    /\ call.key_id = Master.key_id /\ uses > 0
    /\ call.ret = Err(EINVAL)

\* C12: no facade call of any purpose, successful or failed, rotating or not,
\* changes the metadata-key provider: variant, user secret and captured
\* report stay what construction made them.
C12_MetadataKeyFixed == [][fs'.metadata_key = fs.metadata_key]_vars

\* C12 witness: a rotating derive call returned on a facade that had issued
\* metadata keys before, its provider as it was.
C12_FixedAcrossRotation ==
    /\ DeriveCall("FsKeyGen") /\ call.rotated /\ call.ret.ok
    /\ issued # {}
    /\ fs.metadata_key.variant = "UserKey"
    /\ fs.metadata_key = call.pre.metadata_key

C14_HardwareRestore ==
    (RestoreCall("FsKeyGen") /\ call.key_type = "Metadata"
       /\ fs.metadata_key.variant = "CpuKey")
    => /\ (call.cpu_svn = None \/ call.isv_svn = None)
            => (call.ret = Err(EINVAL) /\ call.used = {})
       /\ (call.cpu_svn = Some(fs.metadata_key.report.cpu_svn)
             /\ call.isv_svn = Some(fs.metadata_key.report.isv_svn))
            => \A p \in issued :
                  p.key_id = call.key_id
                  => call.ret = IF call.env.hw THEN Ok(p.key, 0) ELSE Err(EGETKEY)

\* C14 witness: a hardware-bound restore with both SVNs returned the key that
\* a derive had issued with tag 1.
C14_Unsealed ==
    /\ RestoreCall("FsKeyGen") /\ call.key_type = "Metadata" /\ call.ret.ok
    /\ fs.metadata_key.variant = "CpuKey"
    /\ call.cpu_svn # None /\ call.isv_svn # None
    /\ call.key_id = 1
    /\ [key |-> call.ret.key, key_id |-> call.key_id] \in issued

\* the master key of the facade under construction could be created
MasterCreated == call.env.rng[1] # None /\ call.env.mac[1]

\* C15: FsKeyGen::new with a caller-supplied secret yields a UserKey provider
\* holding it; with none and hardware identity available a CpuKey provider
\* holding the report; with neither it fails, with ENOTSUP, and no facade
\* exists.  A constructed facade holds usage_count = 0 and the secret derived
\* under the tag just drawn.  (Creating the master key comes first: when that
\* fails there is no facade either, and its error is the one returned.)
C15_Construction ==
    call.op = "new"
    => /\ call.ret.ok
            => /\ fs.master_key = [key |-> FreshSecret(Drawn(1)),
                                   key_id |-> Drawn(1), count |-> 0]
               /\ fs.metadata_key =
                     IF call.user_key # None THEN UserKey(Unwrap(call.user_key))
                     ELSE CpuKey(call.report)
               /\ call.user_key # None \/ call.tfs
       /\ ~call.ret.ok => ~Exists
       /\ (call.user_key = None /\ ~call.tfs)
            => (~call.ret.ok /\ (MasterCreated => call.ret.err = ENOTSUP))
       /\ (MasterCreated /\ (call.user_key # None \/ call.tfs)) => call.ret.ok
       /\ ~MasterCreated
            => (~call.ret.ok
                /\ call.ret.err = IF call.env.rng[1] = None THEN ENOTSUP ELSE EMAC)

\* C15 witness: construction without a secret, on a build with hardware
\* identity, gave a hardware-bound facade.
C15_HardwareBound ==
    /\ call.op = "new" /\ call.ret.ok
    /\ call.user_key = None /\ call.tfs
    /\ fs.metadata_key.variant = "CpuKey"
    /\ fs.master_key.count = 0 /\ fs.master_key.key_id = 1

\* C16: every MasterKey that is destroyed, by teardown of the facade, by a
\* rotation discarding the old state or by a failed construction, is left by
\* its drop with an all-zero secret and usage_count = 0; every destroyed
\* UserKey provider is left with an all-zero secret.
C16_Zeroized ==
    /\ \A m \in call.dropped.master : m.key = 0 /\ m.count = 0
    /\ \A d \in call.dropped.metadata : d.variant = "UserKey" => d.user_key = 0

\* C16 witness: a rotation discarded a master key that held a secret and a
\* full counter, zeroized.
C16_RotatedAwayZeroized ==
    /\ DeriveCall("FsKeyGen") /\ call.rotated
    /\ PreMaster.key # 0 /\ PreMaster.count = MAX_USAGES
    /\ call.dropped.master = {[key |-> 0, key_id |-> PreMaster.key_id, count |-> 0]}

\* the byte sequence b holds, in order: u32 1, the 64-byte zero-padded label
\* of key_type, u32 0, the u64 node number, the 16-byte tag, u32 128, u32 0
FieldsInOrder(b, key_type, node_number, key_id) ==
    /\ Len(b) >= 104
    /\ SubSeq(b, 1, 4) = <<1, 0, 0, 0>>
    /\ SubSeq(b, 5, 68) = LabelOf(key_type) \o Zeros(64 - Len(LabelOf(key_type)))
    /\ SubSeq(b, 69, 72) = <<0, 0, 0, 0>>
    /\ SubSeq(b, 73, 80) = <<node_number % 256, node_number \div 256, 0, 0, 0, 0, 0, 0>>
    /\ SubSeq(b, 81, 96) = <<key_id % 256, key_id \div 256>> \o Zeros(14)
    /\ SubSeq(b, 97, 100) = <<128, 0, 0, 0>>
    /\ SubSeq(b, 101, 104) = <<0, 0, 0, 0>>

\* the bytes the last derive_key and the last restore_key gave to the MAC
DeriveBytes ==
    KdfBytes(KdfInput_derive_input(kdf.d.key_type, kdf.d.node_number, Unwrap(kdf.d.rng)))
RestoreBytes ==
    KdfBytes(KdfInput_restore_input(kdf.r.key_type, kdf.r.node_number, kdf.r.key_id))
Derived == kdf.d.op = "derive_key" /\ kdf.d.rng # None
Restored == kdf.r.op = "restore_key"

\* C17 as stated: the bytes given to the MAC are the seven fields in order and
\* 96 bytes in all, in derive and in restore.
C17_Context96 ==
    /\ Derived => /\ FieldsInOrder(DeriveBytes, kdf.d.key_type, kdf.d.node_number,
                                   Unwrap(kdf.d.rng))
                  /\ Len(DeriveBytes) = 96
    /\ Restored => /\ FieldsInOrder(RestoreBytes, kdf.r.key_type, kdf.r.node_number,
                                    kdf.r.key_id)
                   /\ Len(RestoreBytes) = 96

\* C17 amended: the bytes given to the MAC are [u32 1][64-byte zero-padded
\* label][u32 0][u64 node index][128-bit tag][u32 128][u32 0], 104 bytes in
\* all, in derive and in restore; with equal purpose, node index and tag the
\* two sequences are equal.
C17_Context104 ==
    /\ Derived => /\ Len(DeriveBytes) = 104
                  /\ FieldsInOrder(DeriveBytes, kdf.d.key_type, kdf.d.node_number,
                                   Unwrap(kdf.d.rng))
    /\ Restored => /\ Len(RestoreBytes) = 104
                   /\ FieldsInOrder(RestoreBytes, kdf.r.key_type, kdf.r.node_number,
                                    kdf.r.key_id)
    /\ (Derived /\ Restored /\ kdf.r.key_type = kdf.d.key_type
          /\ kdf.r.node_number = kdf.d.node_number /\ kdf.r.key_id = Unwrap(kdf.d.rng))
       => RestoreBytes = DeriveBytes

\* C17 witness: a derive and a restore for purpose Random, node 1 and tag 1
\* gave the MAC the same 104 bytes.
C17_SameContext ==
    /\ Derived /\ Restored /\ kdf.d.ret.ok /\ kdf.r.ret.ok
    /\ kdf.d.key_type = "Random" /\ kdf.r.key_type = "Random"
    /\ kdf.d.node_number = 1 /\ kdf.r.node_number = 1
    /\ kdf.d.ret.key_id = 1 /\ kdf.r.key_id = 1
    /\ RestoreBytes = DeriveBytes /\ Len(DeriveBytes) = 104

\* the last facade derive call asked for the random source and did not get
\* it: in the metadata provider, in a rotation, or in the Random sub-key step
RngUnavailable ==
    /\ DeriveCall("FsKeyGen")
    /\ \/ call.key_type = "Metadata" /\ call.env.rng[1] = None
       \/ Touches(call.key_type) /\ PreMaster.count >= MAX_USAGES
            /\ call.env.rng[1] = None
       \/ call.key_type = "Random" /\ call.touch.ok /\ call.env.rng[2] = None

\* the condition a facade derive reports when the random source is
\* unavailable in its first draw
RngCondition ==
    FsKeyGen_derive_key(call.pre, "Metadata", 0, NoEnv).ret.err

\* C18: a derive that cannot obtain the random source fails with a condition
\* other than the one used for unsupported purposes and unavailable hardware
\* support (ENOTSUP), and no restore on the facade fails with the condition
\* such a derive reports.
C18_RandomnessDistinct ==
    /\ RngUnavailable => (~call.ret.ok /\ call.ret.err # ENOTSUP)
    /\ RestoreCall("FsKeyGen") => call.ret.err # RngCondition

\* the step is a facade derive for a purpose the master key serves
MasterServed ==
    /\ call'.comp = "FsKeyGen"
    /\ call'.op = "derive_key"
    /\ Touches(call'.key_type)

\* C19: only facade derive(Master, _) and derive(Random, _) change the master
\* key: every facade derive(Metadata, _) and every facade restore, successful
\* or failed, leaves the master secret, the master tag and the usage count as
\* they were, and counts no use of the master secret.
C19_MasterKeyFrame ==
    [][(fs'.master_key # fs.master_key \/ uses' # uses) => MasterServed]_vars

\* a facade derive(Metadata) succeeded on a master key whose budget is used up,
\* and the master key is the one the call found
C19_MetadataLeavesBudget ==
    /\ DeriveCall("FsKeyGen")
    /\ call.key_type = "Metadata"
    /\ call.ret.ok
    /\ call.pre.master_key.count = MAX_USAGES
    /\ fs.master_key = call.pre.master_key

\* the purpose, node index and tag of the last derive_key and restore_key
DeriveArgs == <<kdf.d.key_type, kdf.d.node_number, Unwrap(kdf.d.rng)>>
RestoreArgs == <<kdf.r.key_type, kdf.r.node_number, kdf.r.key_id>>

\* C20: the three purpose labels are pairwise distinct and each fits in the
\* 64-byte label field, and two derivations feed the same bytes to the MAC only
\* if purpose, node index and tag are all equal.
C20_DomainSeparation ==
    /\ \A a, b \in KeyTypes : LabelOf(a) = LabelOf(b) => a = b
    /\ \A a \in KeyTypes : Len(LabelOf(a)) <= LabelSize
    /\ (Derived /\ Restored /\ DeriveBytes = RestoreBytes) => DeriveArgs = RestoreArgs

\* a derive for Random and a restore for Master with the same node index and
\* tag gave the MAC different bytes
C20_PurposeSeparated ==
    /\ Derived /\ Restored
    /\ kdf.d.key_type = "Random" /\ kdf.r.key_type = "Master"
    /\ kdf.d.node_number = kdf.r.node_number
    /\ Unwrap(kdf.d.rng) = kdf.r.key_id
    /\ DeriveBytes # RestoreBytes

====
